---- MODULE Spec2Model ----
(***************************************************************************)
(* Date-column detection engine of rde_ds_demo_frontend: the processing    *)
(* orchestrator (utils/async_processor.py), the metadata store             *)
(* (utils/metadata.py), the classifier (utils/date_detector.py), the       *)
(* readers (utils/file_handler.py), the harmonizer                         *)
(* (utils/date_harmonizer.py) and the upload/delete surface (app.py).      *)
(*                                                                         *)
(* Worker threads and the Streamlit script thread interleave at every      *)
(* access to the metadata file and to the uploads directory.               *)
(***************************************************************************)
EXTENDS Integers, Sequences, FiniteSets, TLC

VARIABLES
    disk,           \* uploads directory: filename -> content id, or "missing"
    store,          \* uploads/.metadata.json: [torn, content]
    runs,           \* sequence of started worker threads (_process_file_sync frames)
    ui,             \* the Streamlit script thread: [pc, file, hint, data]
    last_uploaded,  \* st.session_state.last_uploaded
    uploads,        \* number of uploads accepted so far
    df,             \* bench: the DataFrame under test
    detected,       \* bench: the value detect_date_column returned
    stage,          \* bench: "input" | "classified" | "extracted" | "harmonized" | "off"
    path,           \* bench: the file the frame under test is read from
    out             \* bench: what the range extractors / the harmonizer returned

vars == <<disk, store, runs, ui, last_uploaded, uploads, df, detected, stage, path, out>>
orchestratorVars == <<disk, store, runs, ui, last_uploaded, uploads>>
benchVars == <<df, detected, stage, path, out>>

\* ---------------------------------------------------------------- bounds
MaxUploads == 2
MaxRows == 101
MaxCells == 5

\* ------------------------------------------------------ program constants
DETECTION_SAMPLE_SIZE == 1000
HEAD_SAMPLE == 100
\* date_harmonizer.py:6 (its own DETECTION_SAMPLE_SIZE)
HARMONIZER_SAMPLE_SIZE == 100

None == "None"
Files == {"a.csv", "b.xlsx"}

\* what the user uploads: <<filename, content, date column typed in the text box>>
Inputs ==
    { <<"a.csv", "dated", "b">>, <<"a.csv", "broken", "b">>, <<"a.csv", "unreadable", None>>,
      <<"b.xlsx", "dated", "zz">>, <<"b.xlsx", "plain", None>>, <<"b.xlsx", "broken", "b">> }

Suffix(f) == IF f = "a.csv" THEN ".csv" ELSE ".xlsx"

\* ------------------------------------------------------------ data frames
\* A cell is null (NaN/None), junk (a string no date parser accepts) or a date
\* (v = its day number).
Null == [k |-> "null", v |-> 0]
Junk == [k |-> "junk", v |-> 0]
Date(n) == [k |-> "date", v |-> n]

Column(name, dtype, cells) == [name |-> name, dtype |-> dtype, cells |-> cells]

Min(S) == CHOOSE x \in S : \A y \in S : x <= y
Max(S) == CHOOSE x \in S : \A y \in S : x >= y
Range(s) == {s[i] : i \in 1..Len(s)}

NotNa(c) == c.k # "null"
\* pd.to_datetime(..., errors="coerce"): a cell that does not parse becomes NaT
Parses(c) == c.k = "date"

head(s, n) == SubSeq(s, 1, IF Len(s) < n THEN Len(s) ELSE n)
dropna(s) == SelectSeq(s, NotNa)

\* date_detector.py:17-23: the sample of a string column and the test on it.
\* parsed.notna().sum() / len(sample) > 0.8 is a float comparison; for
\* len(sample) <= 100 it agrees with the exact comparison 10*k > 8*n.
SampleFractionOverThreshold(k, n) == 10 * k > 8 * n

ObjectColumnIsDate(col) ==
    LET sample == head(dropna(col.cells), HEAD_SAMPLE)
    IN  /\ Len(sample) # 0
        /\ SampleFractionOverThreshold(Len(SelectSeq(sample, Parses)), Len(sample))

\* date_detector.py:5-28
detect_date_column(frame) ==
    LET typed == {i \in 1..Len(frame) : frame[i].dtype = "datetime"}
        strs  == {i \in 1..Len(frame) :
                      frame[i].dtype = "object" /\ ObjectColumnIsDate(frame[i])}
    IN  IF typed # {} THEN frame[Min(typed)].name
        ELSE IF strs # {} THEN frame[Min(strs)].name
        ELSE None

\* ------------------------------------------------------------ file contents
\* What an uploaded file can hold. readable = FALSE: no reader can open it;
\* bodyOk = FALSE: the header and the first rows parse, a full scan fails.
\* "bench" is a well-formed file that holds the frame under test.
ContentIds == {"dated", "plain", "broken", "unreadable"}

DatedCols ==
    << Column("a", "object", <<Junk, Junk, Null>>),
       Column("b", "object", <<Date(3), Null, Date(1), Date(5), Junk, Date(2), Date(4)>>) >>
PlainCols ==
    << Column("a", "object", <<Junk, Junk, Null>>) >>

Content(id) ==
    CASE id = "dated"      -> [readable |-> TRUE,  bodyOk |-> TRUE,  cols |-> DatedCols]
      [] id = "plain"      -> [readable |-> TRUE,  bodyOk |-> TRUE,  cols |-> PlainCols]
      [] id = "broken"     -> [readable |-> TRUE,  bodyOk |-> FALSE, cols |-> DatedCols]
      [] id = "unreadable" -> [readable |-> FALSE, bodyOk |-> FALSE, cols |-> << >>]
      [] id = "bench"      -> [readable |-> TRUE,  bodyOk |-> TRUE,  cols |-> df]

ColNames(cols) == [i \in 1..Len(cols) |-> cols[i].name]

\* file_handler.py:42-52: raises unless the file exists and its header parses
HeaderReadable(f) == disk[f] # "missing" /\ Content(disk[f]).readable
get_column_names(f) == ColNames(Content(disk[f]).cols)

\* file_handler.py:18-34: read_file(path, nrows); nrows = 0 stands for None
SampleReadable(f) == disk[f] # "missing" /\ Content(disk[f]).readable
FullReadable(f) == SampleReadable(f) /\ Content(disk[f]).bodyOk
read_file(f, nrows) ==
    LET cols == Content(disk[f]).cols
    IN  [i \in 1..Len(cols) |->
            Column(cols[i].name, cols[i].dtype,
                   IF nrows = 0 THEN cols[i].cells ELSE head(cols[i].cells, nrows))]

\* datetime.isoformat(): the ISO string of day d; None is the empty sequence
NoDate == << >>
isoformat(d) == <<d>>

ColumnOf(frame, name) == frame[CHOOSE i \in 1..Len(frame) : frame[i].name = name]
HasColumn(frame, name) == \E i \in 1..Len(frame) : frame[i].name = name

\* the cells of a column that become valid datetimes
ValidDates(col) ==
    {col.cells[i].v : i \in {j \in 1..Len(col.cells) :
        IF col.dtype = "datetime" THEN NotNa(col.cells[j]) ELSE Parses(col.cells[j])}}

\* file_handler.py:71, str.to_datetime(strict=False) without a format: polars
\* infers the format from the first non-null value of the column and raises
\* ComputeError when that value matches no date pattern. (Cells of kind date
\* are all written in one format, so the inferred format parses each of them.)
InferFormatRaises(col) ==
    LET present == dropna(col.cells)
    IN  Len(present) # 0 /\ ~Parses(present[1])

\* file_handler.py:68-79: the scan raises when the file cannot be read to its
\* end, when it has no such column, when the column is no string column, or
\* when no format can be inferred for it
LazyScanRaises(f, date_column) ==
    \/ ~FullReadable(f)
    \/ ~HasColumn(read_file(f, 0), date_column)
    \/ ColumnOf(read_file(f, 0), date_column).dtype # "object"
    \/ InferFormatRaises(ColumnOf(read_file(f, 0), date_column))

\* file_handler.py:55-88 (CSV, streaming); every failure inside is swallowed
get_date_range_lazy(f, date_column) ==
    IF Suffix(f) # ".csv" THEN <<NoDate, NoDate>>
    ELSE IF LazyScanRaises(f, date_column) THEN <<NoDate, NoDate>>
    ELSE LET valid == ValidDates(ColumnOf(read_file(f, 0), date_column))
         IN  IF valid = {} THEN <<NoDate, NoDate>>
             ELSE <<isoformat(Min(valid)), isoformat(Max(valid))>>

\* date_detector.py:31-43 followed by async_processor.py:61-62
get_date_range(frame, date_column) ==
    IF ~HasColumn(frame, date_column) THEN <<NoDate, NoDate>>
    ELSE LET valid == ValidDates(ColumnOf(frame, date_column))
         IN  IF valid = {} THEN <<NoDate, NoDate>>
             ELSE <<isoformat(Min(valid)), isoformat(Max(valid))>>

\* ------------------------------------------------------------ metadata store
\* A stored record. user_specified_date_column is "absent" until a write adds
\* the key; FileMetadata (metadata.py:10-19) has no such field.
NewRecord(f, t) ==
    [filename |-> f, upload_time |-> t, status |-> "pending",
     date_column |-> None, earliest_date |-> NoDate, latest_date |-> NoDate,
     error_message |-> None, user_specified_date_column |-> "absent"]

\* metadata.py:28-38: an empty or undecodable file reads as {}
_load == IF store.torn THEN << >> ELSE store.content

\* metadata.py:40-43, open(..., "w"): the file is truncated before anything is written
SaveOpen == store' = [store EXCEPT !.torn = TRUE]

\* metadata.py:40-43, json.dump and close. A writer whose open was followed by
\* another writer's dump writes over that text from offset 0: the file then
\* holds its own text, or its text with the other's tail after it.
SaveDump(data) ==
    IF store.torn
    THEN store' = [torn |-> FALSE, content |-> data]
    ELSE \E tail \in BOOLEAN : store' = [torn |-> tail, content |-> data]

\* FileMetadata(**record) raises TypeError on a key that is no field
ConstructRaises(rec) == rec.user_specified_date_column # "absent"
TypeErrorMessage == "TypeError: unexpected keyword argument user_specified_date_column"
IOErrorMessage == "IOError: file missing or unreadable"

BoolStr(b) == IF b THEN "True" ELSE "False"

\* ------------------------------------------------------------ worker threads
NewRun(f, hint) ==
    [file |-> f, hint |-> hint, pc |-> "update_load", phase |-> "processing",
     data |-> << >>, columns |-> << >>, sample |-> None,
     date_column |-> None, user_specified |-> FALSE, classified |-> FALSE,
     earliest |-> NoDate, latest |-> NoDate, error |-> None,
     failed |-> None, reached_completed |-> FALSE]

Finished(r) == runs[r].pc \in {"done", "raised"}

\* the keyword arguments of the three update calls (async_processor.py:24, 44-51/64-71, 81)
Merge(rec, run) ==
    CASE run.phase = "processing" -> [rec EXCEPT !.status = "processing"]
      [] run.phase = "completed"  ->
            [rec EXCEPT !.status = "completed",
                        !.date_column = run.date_column,
                        !.earliest_date = run.earliest,
                        !.latest_date = run.latest,
                        !.user_specified_date_column = BoolStr(run.user_specified)]
      [] run.phase = "error"      ->
            [rec EXCEPT !.status = "error", !.error_message = run.error]

\* where _process_file_sync goes when the update of a phase returns
AfterUpdate(run) ==
    CASE run.phase = "processing" ->
            [run EXCEPT !.pc = IF run.hint \notin {None, ""} THEN "columns" ELSE "sample",
                        !.data = << >>]
      [] run.phase = "completed"  -> [run EXCEPT !.pc = "done", !.data = << >>]
      [] run.phase = "error"      -> [run EXCEPT !.pc = "done", !.data = << >>]

\* an exception inside the try block enters the handler (line 80-81); one
\* inside the handler leaves _process_file_sync
Raise(run, msg) ==
    IF run.phase = "error"
    THEN [run EXCEPT !.pc = "raised", !.data = << >>]
    ELSE [run EXCEPT !.pc = "update_load", !.phase = "error", !.error = msg, !.data = << >>]

\* the step of the run that failed as a whole is remembered in .failed
Fail(run, step, msg) == [Raise(run, msg) EXCEPT !.failed = step]

\* metadata.py:58-62: update() loads, returns None for an unknown filename
UpdateLoad(r) ==
    /\ runs[r].pc = "update_load"
    /\ LET run == runs[r]
           data == _load
       IN  runs' = [runs EXCEPT ![r] =
              IF run.file \notin DOMAIN data
              THEN AfterUpdate(run)
              ELSE [run EXCEPT !.pc = "update_save",
                               !.data = [data EXCEPT ![run.file] = Merge(data[run.file], run)]]]
    /\ UNCHANGED <<disk, store, ui, last_uploaded, uploads, benchVars>>

\* metadata.py:63 -> 40-42
UpdateSaveOpen(r) ==
    /\ runs[r].pc = "update_save"
    /\ SaveOpen
    /\ runs' = [runs EXCEPT ![r].pc = "update_dump"]
    /\ UNCHANGED <<disk, ui, last_uploaded, uploads, benchVars>>

\* metadata.py:43, 64-65: the dump, then FileMetadata(**data[filename])
UpdateSaveDump(r) ==
    /\ runs[r].pc = "update_dump"
    /\ SaveDump(runs[r].data)
    /\ LET run == runs[r]
       IN  runs' = [runs EXCEPT ![r] =
              IF ConstructRaises(run.data[run.file])
              THEN Raise(run, TypeErrorMessage)
              ELSE AfterUpdate(run)]
    /\ UNCHANGED <<disk, ui, last_uploaded, uploads, benchVars>>

\* mutant of ResolveSpecified: the given column is used without looking it up
ResolveSpecifiedUnchecked(run, columns) ==
    [run EXCEPT !.columns = columns, !.date_column = run.hint,
                !.user_specified = TRUE, !.pc = "range"]

\* async_processor.py:28-34
ResolveSpecified(run, columns) ==
    IF run.hint \in Range(columns)
    THEN [run EXCEPT !.columns = columns, !.date_column = run.hint,
                     !.user_specified = TRUE, !.pc = "range"]
    ELSE [run EXCEPT !.columns = columns, !.pc = "sample"]

GetColumns(r) ==
    /\ runs[r].pc = "columns"
    /\ LET run == runs[r]
       IN  runs' = [runs EXCEPT ![r] =
              IF ~HeaderReadable(run.file)
              THEN Fail(run, "columns", IOErrorMessage)
              ELSE ResolveSpecified(run, get_column_names(run.file))]
    /\ UNCHANGED <<disk, store, ui, last_uploaded, uploads, benchVars>>

\* async_processor.py:36-37 / 40-41, then 43-52
ResolveDetected(run, content) ==
    LET col == detect_date_column(read_file(run.file, DETECTION_SAMPLE_SIZE))
    IN  [run EXCEPT !.sample = content, !.classified = TRUE, !.date_column = col,
                    !.pc = IF col = None THEN "update_load" ELSE "range",
                    !.phase = IF col = None THEN "completed" ELSE run.phase,
                    !.reached_completed = (col = None)]

ReadSample(r) ==
    /\ runs[r].pc = "sample"
    /\ LET run == runs[r]
       IN  runs' = [runs EXCEPT ![r] =
              IF ~SampleReadable(run.file)
              THEN Fail(run, "sample", IOErrorMessage)
              ELSE ResolveDetected(run, disk[run.file])]
    /\ UNCHANGED <<disk, store, ui, last_uploaded, uploads, benchVars>>

\* async_processor.py:54-62
DateRange(r) ==
    /\ runs[r].pc = "range"
    /\ LET run == runs[r]
           f == run.file
       IN  runs' = [runs EXCEPT ![r] =
              IF Suffix(f) = ".csv"
              THEN LET rng == get_date_range_lazy(f, run.date_column)
                   IN  [run EXCEPT !.earliest = rng[1], !.latest = rng[2],
                                   !.failed = IF LazyScanRaises(f, run.date_column)
                                              THEN "range" ELSE None,
                                   !.reached_completed = TRUE,
                                   !.phase = "completed", !.pc = "update_load"]
              ELSE IF ~FullReadable(f)
              THEN Fail(run, "range", IOErrorMessage)
              ELSE LET rng == get_date_range(read_file(f, 0), run.date_column)
                   IN  [run EXCEPT !.earliest = rng[1], !.latest = rng[2],
                                   !.failed = IF HasColumn(read_file(f, 0), run.date_column)
                                              THEN None ELSE "range",
                                   !.reached_completed = TRUE,
                                   !.phase = "completed", !.pc = "update_load"]]
    /\ UNCHANGED <<disk, store, ui, last_uploaded, uploads, benchVars>>

\* ------------------------------------------------------------ script thread
Idle == [pc |-> "idle", file |-> None, hint |-> None, data |-> << >>]

\* app.py:34-38: a new upload is saved over whatever the uploads directory holds
UploadSave(f, c, h) ==
    /\ ui.pc = "idle"
    /\ uploads < MaxUploads
    /\ last_uploaded # f
    /\ disk' = [disk EXCEPT ![f] = c]
    /\ uploads' = uploads + 1
    /\ ui' = [pc |-> "create_load", file |-> f, hint |-> h, data |-> << >>]
    /\ UNCHANGED <<store, runs, last_uploaded, benchVars>>

\* app.py:41 -> metadata.py:45-55: create() loads and sets a fresh pending record
CreateLoad ==
    /\ ui.pc = "create_load"
    /\ LET data == _load
           f == ui.file
       IN  ui' = [ui EXCEPT !.pc = "create_save",
                    !.data = [g \in DOMAIN data \cup {f} |->
                                 IF g = f THEN NewRecord(f, uploads) ELSE data[g]]]
    /\ UNCHANGED <<disk, store, runs, last_uploaded, uploads, benchVars>>

CreateSaveOpen ==
    /\ ui.pc = "create_save"
    /\ SaveOpen
    /\ ui' = [ui EXCEPT !.pc = "create_dump"]
    /\ UNCHANGED <<disk, runs, last_uploaded, uploads, benchVars>>

\* metadata.py:43, then app.py:44-47: the worker thread is started
CreateSaveDump ==
    /\ ui.pc = "create_dump"
    /\ SaveDump(ui.data)
    /\ runs' = Append(runs, NewRun(ui.file, ui.hint))
    /\ last_uploaded' = ui.file
    /\ ui' = Idle
    /\ UNCHANGED <<disk, uploads, benchVars>>

\* app.py:62: the page renders only if get_all() builds every stored record
GetAllReturns == \A g \in DOMAIN _load : ~ConstructRaises(_load[g])
\* app.py:67
GetReturns(f) == f \in DOMAIN _load => ~ConstructRaises(_load[f])

\* app.py:55-62, 159: the Delete button of a listed file is clicked
DeleteClick(f) ==
    /\ ui.pc = "idle"
    /\ disk[f] # "missing"
    /\ GetAllReturns
    /\ ui' = [pc |-> "delete_get", file |-> f, hint |-> None, data |-> << >>]
    /\ UNCHANGED <<disk, store, runs, last_uploaded, uploads, benchVars>>

\* app.py:67, 159-161 -> file_handler.py:98-104
DeleteFile ==
    /\ ui.pc = "delete_get"
    /\ IF GetReturns(ui.file)
       THEN /\ disk' = [disk EXCEPT ![ui.file] = "missing"]
            /\ ui' = [ui EXCEPT !.pc = "delete_load"]
       ELSE /\ ui' = Idle
            /\ UNCHANGED disk
    /\ UNCHANGED <<store, runs, last_uploaded, uploads, benchVars>>

\* app.py:162-164 -> metadata.py:79-83
DeleteLoad ==
    /\ ui.pc = "delete_load"
    /\ LET data == _load
           f == ui.file
       IN  IF f \notin DOMAIN data
           THEN /\ ui' = Idle
                /\ last_uploaded' = IF last_uploaded = f THEN None ELSE last_uploaded
           ELSE /\ ui' = [ui EXCEPT !.pc = "delete_save",
                             !.data = [g \in DOMAIN data \ {f} |-> data[g]]]
                /\ UNCHANGED last_uploaded
    /\ UNCHANGED <<disk, store, runs, uploads, benchVars>>

DeleteSaveOpen ==
    /\ ui.pc = "delete_save"
    /\ SaveOpen
    /\ ui' = [ui EXCEPT !.pc = "delete_dump"]
    /\ UNCHANGED <<disk, runs, last_uploaded, uploads, benchVars>>

\* metadata.py:84-86, app.py:163-164
DeleteSaveDump ==
    /\ ui.pc = "delete_dump"
    /\ SaveDump(ui.data)
    /\ last_uploaded' = IF last_uploaded = ui.file THEN None ELSE last_uploaded
    /\ ui' = Idle
    /\ UNCHANGED <<disk, runs, uploads, benchVars>>

\* ------------------------------------------------------------ classifier bench
\* A one-column string frame: z nulls, then k cells that parse, then j that do not.
Cells(z, k, j) ==
    [i \in 1..(z + k + j) |->
        IF i <= z THEN Null ELSE IF i <= z + k THEN Date(i) ELSE Junk]

BenchFrames ==
    { << Column("c", "object", Cells(t[3], t[2], t[1] - t[2])) >> :
        t \in {u \in (0..MaxRows) \X (0..MaxRows) \X (0..1) : u[2] <= u[1]} }

\* date_detector.py:5-28 applied to a frame
Classify ==
    /\ stage = "input"
    /\ detected' = detect_date_column(df)
    /\ stage' = "classified"
    /\ UNCHANGED <<df, path, out, orchestratorVars>>

\* ------------------------------------------------------------ range bench
\* One column "c" of up to MaxCells cells, each null, junk or one of three dates.
CellSeqs(n) == UNION {[1..m -> {Null, Junk, Date(1), Date(2), Date(3)}] : m \in 0..n}
RangeFrames == { << Column("c", "object", cells) >> : cells \in CellSeqs(MaxCells) }

\* async_processor.py:54-62: the streaming extractor for a CSV file, the
\* materializing one (read_file, then get_date_range) for an Excel file
ExtractRange ==
    /\ stage = "input"
    /\ path # None
    /\ out' = IF Suffix(path) = ".csv"
              THEN get_date_range_lazy(path, "c")
              ELSE get_date_range(read_file(path, 0), "c")
    /\ stage' = "extracted"
    /\ UNCHANGED <<df, detected, path, orchestratorVars>>

\* ------------------------------------------------------------ harmonizer
\* date_harmonizer.py:9-21. The cells of kind date of a string column are
\* written as YYYY-MM-DD, so the first format parses them and no other does.
DATE_FORMATS ==
    << "%Y-%m-%d", "%m/%d/%Y", "%d/%m/%Y", "%Y/%m/%d", "%m-%d-%Y", "%d-%m-%Y",
       "%Y%m%d", "%B %d, %Y", "%b %d, %Y", "%d %B %Y", "%d %b %Y" >>

\* the empty string fill_null("") / fillna("") puts into a harmonized column
Empty == [k |-> "empty", v |-> 0]

\* str.to_datetime(format=fmt, strict=False) on one cell
ParsesAs(c, fmt) == c.k = "date" /\ fmt = "%Y-%m-%d"

CountParsed(series, fmt) == Len(SelectSeq(series, LAMBDA c : ParsesAs(c, fmt)))

\* date_harmonizer.py:24-35: the first format under which valid_count >=
\* len(series) * 0.8 (a float product; exact for len(series) <= 100), or None
_try_parse_dates_polars(series) ==
    LET ok == {i \in 1..Len(DATE_FORMATS) :
                  10 * CountParsed(series, DATE_FORMATS[i]) >= 8 * Len(series)}
    IN  IF ok = {} THEN None ELSE DATE_FORMATS[Min(ok)]

\* date_harmonizer.py:42-59, one column: <<name, fmt>> if it is detected
PolarsCandidate(col) ==
    IF col.dtype = "datetime" THEN <<col.name, None>>
    ELSE IF col.dtype # "object" THEN << >>
    ELSE LET sample == head(dropna(col.cells), HARMONIZER_SAMPLE_SIZE)
             fmt == _try_parse_dates_polars(sample)
         IN  IF Len(sample) = 0 \/ fmt = None THEN << >>
             ELSE IF 10 * CountParsed(sample, fmt) >= 8 * Len(sample)
                  THEN <<col.name, fmt>> ELSE << >>

\* date_harmonizer.py:38-61
_detect_date_columns_polars(frame) ==
    SelectSeq([i \in 1..Len(frame) |-> PolarsCandidate(frame[i])],
              LAMBDA p : p # << >>)

\* date_harmonizer.py:69-80, one column
PandasCandidate(col) ==
    IF col.dtype = "datetime" THEN TRUE
    ELSE IF col.dtype # "object" THEN FALSE
    ELSE LET sample == head(dropna(col.cells), HARMONIZER_SAMPLE_SIZE)
         IN  /\ Len(sample) # 0
             /\ 10 * Len(SelectSeq(sample, Parses)) >= 8 * Len(sample)

\* date_harmonizer.py:64-84
_detect_date_columns_pandas(frame) ==
    ColNames(SelectSeq(frame, PandasCandidate))

\* f"{col}_harmonized"
harmonized_name(col) ==
    CASE col = "c" -> "c_harmonized"
      [] col = "d" -> "d_harmonized"
      [] col = "c_harmonized" -> "c_harmonized_harmonized"
      [] OTHER -> "_harmonized"

\* with_columns(series.alias(name)) / result[name] = series: a column of that
\* name is replaced where it stands, a new name is appended
with_columns(result, col) ==
    IF HasColumn(result, col.name)
    THEN [i \in 1..Len(result) |-> IF result[i].name = col.name THEN col ELSE result[i]]
    ELSE Append(result, col)

\* dt.strftime("%Y-%m-%d") with nulls filled by "": a string column; valid[i]
\* tells whether the i-th cell is (or parsed to) a datetime
Harmonized(col, valid) ==
    Column(harmonized_name(col.name), "object",
           [i \in 1..Len(col.cells) |->
               IF valid[i] THEN Date(col.cells[i].v) ELSE Empty])

\* date_harmonizer.py:87-111, from the i-th detected column on
RECURSIVE _harmonize_dates_polars(_, _, _)
_harmonize_dates_polars(result, date_columns, i) ==
    IF i > Len(date_columns) THEN result
    ELSE LET name == date_columns[i][1]
             fmt == date_columns[i][2]
         IN  IF ~HasColumn(result, name)
             THEN _harmonize_dates_polars(result, date_columns, i + 1)
             ELSE LET col == ColumnOf(result, name)
                      harmonized ==
                          IF col.dtype = "datetime"
                          THEN Harmonized(col, [j \in 1..Len(col.cells) |-> NotNa(col.cells[j])])
                          ELSE Harmonized(col, [j \in 1..Len(col.cells) |->
                                                   ParsesAs(col.cells[j], fmt)])
                  IN  _harmonize_dates_polars(with_columns(result, harmonized),
                                              date_columns, i + 1)

\* date_harmonizer.py:114-127, from the i-th detected column on
RECURSIVE _harmonize_dates_pandas(_, _, _)
_harmonize_dates_pandas(result, date_columns, i) ==
    IF i > Len(date_columns) THEN result
    ELSE LET name == date_columns[i]
         IN  IF ~HasColumn(result, name)
             THEN _harmonize_dates_pandas(result, date_columns, i + 1)
             ELSE LET col == ColumnOf(result, name)
                      harmonized ==
                          IF col.dtype = "datetime"
                          THEN Harmonized(col, [j \in 1..Len(col.cells) |-> NotNa(col.cells[j])])
                          ELSE Harmonized(col, [j \in 1..Len(col.cells) |->
                                                   Parses(col.cells[j])])
                  IN  _harmonize_dates_pandas(with_columns(result, harmonized),
                                              date_columns, i + 1)

\* date_harmonizer.py:130-163: the detected columns and the frame that is
\* written out as CSV
get_harmonized_csv(f) ==
    IF Suffix(f) = ".csv"
    THEN LET frame == read_file(f, 0)
             date_columns == _detect_date_columns_polars(frame)
         IN  [date_columns |-> [i \in 1..Len(date_columns) |-> date_columns[i][1]],
              frame |-> _harmonize_dates_polars(frame, date_columns, 1)]
    ELSE LET frame == read_file(f, 0)
             date_columns == _detect_date_columns_pandas(frame)
         IN  [date_columns |-> date_columns,
              frame |-> _harmonize_dates_pandas(frame, date_columns, 1)]

\* ------------------------------------------------------------ harmonizer bench
\* Frames of one or two columns with the same number of rows (at most MaxCells).
RowCells(n) == {Cells(t[1], t[2], n - t[1] - t[2]) : t \in {u \in (0..n) \X (0..n) : u[1] + u[2] <= n}}

HarmonizerNames == { <<"c">>, <<"c", "d">>, <<"c", "c_harmonized">>, <<"c_harmonized", "c">> }

\* the column types a reader of the file can produce: strings from a CSV file,
\* strings or datetimes (no junk among them) from an Excel file
Dtypes(f, cells) ==
    IF Suffix(f) = ".xlsx" /\ \A i \in 1..Len(cells) : cells[i].k # "junk"
    THEN {"object", "datetime"} ELSE {"object"}

HarmonizerFrames(f) ==
    UNION { UNION { { [i \in 1..Len(names) |-> Column(names[i], ty[i], cs[i])] :
                        ty \in {t \in [1..Len(names) -> {"object", "datetime"}] :
                                   \A i \in 1..Len(names) : t[i] \in Dtypes(f, cs[i])} } :
                    cs \in [1..Len(names) -> RowCells(n)] } :
            names \in HarmonizerNames, n \in 0..MaxCells }

\* async_processor.py:40-41: the orchestrator's detection on its sample
DetectOnSample ==
    /\ stage = "input"
    /\ path # None
    /\ detected' = detect_date_column(read_file(path, DETECTION_SAMPLE_SIZE))
    /\ stage' = "classified"
    /\ UNCHANGED <<df, path, out, orchestratorVars>>

\* date_harmonizer.py:130-163
GetHarmonizedCsv ==
    /\ stage = "classified"
    /\ path # None
    /\ out' = get_harmonized_csv(path)
    /\ stage' = "harmonized"
    /\ UNCHANGED <<df, detected, path, orchestratorVars>>

\* ------------------------------------------------------------ specification
InitOrchestrator ==
    /\ disk = [f \in Files |-> "missing"]
    /\ store = [torn |-> FALSE, content |-> << >>]
    /\ runs = << >>
    /\ ui = Idle
    /\ last_uploaded = None
    /\ uploads = 0

Init ==
    /\ InitOrchestrator
    /\ df = << >>
    /\ detected = None
    /\ stage = "off"
    /\ path = None
    /\ out = << >>

Next ==
    \/ \E in \in Inputs : UploadSave(in[1], in[2], in[3])
    \/ CreateLoad
    \/ CreateSaveOpen
    \/ CreateSaveDump
    \/ \E f \in Files : DeleteClick(f)
    \/ DeleteFile
    \/ DeleteLoad
    \/ DeleteSaveOpen
    \/ DeleteSaveDump
    \/ \E r \in DOMAIN runs : UpdateLoad(r)
    \/ \E r \in DOMAIN runs : UpdateSaveOpen(r)
    \/ \E r \in DOMAIN runs : UpdateSaveDump(r)
    \/ \E r \in DOMAIN runs : GetColumns(r)
    \/ \E r \in DOMAIN runs : ReadSample(r)
    \/ \E r \in DOMAIN runs : DateRange(r)

Spec == Init /\ [][Next]_vars

InitClassify ==
    /\ InitOrchestrator
    /\ df \in BenchFrames
    /\ detected = None
    /\ stage = "input"
    /\ path = None
    /\ out = << >>

NextClassify == Classify

SpecClassify == InitClassify /\ [][NextClassify]_vars

\* the uploads directory holds the frame under test as a CSV and as an Excel file
InitBench ==
    /\ disk = [f \in Files |-> "bench"]
    /\ store = [torn |-> FALSE, content |-> << >>]
    /\ runs = << >>
    /\ ui = Idle
    /\ last_uploaded = None
    /\ uploads = 0
    /\ detected = None
    /\ stage = "input"
    /\ out = << >>

InitRange ==
    /\ InitBench
    /\ df \in RangeFrames
    /\ path \in Files

NextRange == ExtractRange

SpecRange == InitRange /\ [][NextRange]_vars

InitHarmonize ==
    /\ InitBench
    /\ path \in Files
    /\ df \in HarmonizerFrames(path)

NextHarmonize ==
    \/ DetectOnSample
    \/ GetHarmonizedCsv

SpecHarmonize == InitHarmonize /\ [][NextHarmonize]_vars

\* ------------------------------------------------------------ properties
Quiet == ui.pc = "idle" /\ \A r \in DOMAIN runs : Finished(r)
Stored(f) == ~store.torn /\ f \in DOMAIN store.content
Rec(f) == store.content[f]
RunsOn(f) == {r \in DOMAIN runs : runs[r].file = f}
Given(run) == run.hint \notin {None, ""}

\* Every record a completing write has touched carries the key FileMetadata
\* rejects, so get()/get_all() never return a record in status completed and the
\* Apply handlers of app.py:137-152 are never reached.
CompletedRecordCarriesKey ==
    \A f \in DOMAIN store.content :
        Rec(f).status = "completed" => ConstructRaises(Rec(f))

\* C1: when a newer run for a file was started while an older one was in
\* flight, then after both have ended the file's record holds the newer run's
\* result (its date column and range); a late write of the older run is discarded.
C1_NewerRunWins ==
    \A f \in Files : \A r1, r2 \in RunsOn(f) :
        ( /\ r1 < r2
          /\ Quiet
          /\ Stored(f)
          /\ runs[r2].reached_completed )
        => /\ Rec(f).date_column = runs[r2].date_column
           /\ Rec(f).earliest_date = runs[r2].earliest
           /\ Rec(f).latest_date = runs[r2].latest

\* C3: a record's status is one of the four, and it changes only along
\* pending->processing, processing->completed, processing->error and
\* completed->processing; never completed->error. (A record created anew by a
\* later upload of the same name is another record.)
StatusEdges ==
    { <<"pending", "processing">>, <<"processing", "completed">>,
      <<"processing", "error">>, <<"completed", "processing">> }

C3_StatusLifecycle ==
    /\ [](\A f \in DOMAIN store.content :
            Rec(f).status \in {"pending", "processing", "completed", "error"})
    /\ [][\A f \in Files :
            ( /\ f \in DOMAIN store.content
              /\ f \in DOMAIN store'.content
              /\ store'.content[f].upload_time = store.content[f].upload_time
              /\ store'.content[f].status # store.content[f].status )
            => <<store.content[f].status, store'.content[f].status>> \in StatusEdges]_vars

\* C4: once every started run has finished, no record of the store is left in
\* pending or processing, also when runs for other files wrote the store at the
\* same time.
C4_AllRunsTerminal ==
    (Quiet /\ ~store.torn)
    => \A f \in DOMAIN store.content : Rec(f).status \in {"completed", "error"}

\* C5: a run one of whose steps failed as a whole (column names, sample, range
\* extraction) ends with the record in status error and an error message; a run
\* whose range extraction failed never ends with the record completed.
C5_FailureEndsInError ==
    \A f \in Files : \A r \in RunsOn(f) :
        ( /\ RunsOn(f) = {r}
          /\ Quiet
          /\ Stored(f)
          /\ runs[r].failed # None )
        => /\ Rec(f).status = "error"
           /\ Rec(f).error_message # None

\* C6: _process_file_sync never raises: every run returns a result.
C6_RunNeverRaises ==
    \A r \in DOMAIN runs : runs[r].pc # "raised"

\* C7: a run that resolves no date column ends with the record completed, with
\* date_column, earliest_date and latest_date null and no error recorded.
C7_NoColumnIsSuccess ==
    \A f \in Files : \A r \in RunsOn(f) :
        ( /\ RunsOn(f) = {r}
          /\ Quiet
          /\ Stored(f)
          /\ runs[r].reached_completed
          /\ runs[r].date_column = None )
        => /\ Rec(f).status = "completed"
           /\ Rec(f).date_column = None
           /\ Rec(f).earliest_date = NoDate
           /\ Rec(f).latest_date = NoDate
           /\ Rec(f).error_message = None

\* C8: a run uses the user's column, without invoking the classifier and with
\* user_specified true, exactly when a column is given and is in the column
\* list the run read; otherwise it uses the classifier's result on the sample
\* with user_specified false, and a column absent from the file is no error.
\* The completing write carries that column and that flag.
Resolved(run) == run.pc = "range" \/ run.reached_completed \/ run.failed = "range"
UserColumnUsable(run) == Given(run) /\ run.hint \in Range(run.columns)
SampleFrame(content) ==
    [i \in 1..Len(Content(content).cols) |->
        Column(Content(content).cols[i].name, Content(content).cols[i].dtype,
               head(Content(content).cols[i].cells, DETECTION_SAMPLE_SIZE))]

C8_ColumnResolution ==
    \A r \in DOMAIN runs :
        LET run == runs[r]
        IN  /\ Resolved(run) =>
                /\ UserColumnUsable(run) =>
                      /\ run.date_column = run.hint
                      /\ run.user_specified
                      /\ ~run.classified
                /\ ~UserColumnUsable(run) =>
                      /\ run.classified
                      /\ run.date_column = detect_date_column(SampleFrame(run.sample))
                      /\ ~run.user_specified
            /\ (Given(run) /\ run.columns # << >> /\ run.hint \notin Range(run.columns))
                  => /\ run.failed # "columns"
                     /\ (run.sample = None /\ run.failed = None) => run.pc = "sample"
            /\ (run.pc \in {"update_save", "update_dump"} /\ run.phase = "completed")
                  => /\ run.data[run.file].date_column = run.date_column
                     /\ run.data[run.file].user_specified_date_column
                            = BoolStr(UserColumnUsable(run))

C8_Witness ==
    \E r1, r2 \in DOMAIN runs :
        /\ UserColumnUsable(runs[r1]) /\ runs[r1].pc = "update_dump"
        /\ runs[r1].phase = "completed"
        /\ Given(runs[r2]) /\ ~UserColumnUsable(runs[r2]) /\ runs[r2].classified
        /\ runs[r2].date_column # None /\ runs[r2].reached_completed

\* C9: a reader of the store (the load of get, get_all, create, update or
\* delete) sees the whole store as it was before a concurrent write or as it is
\* after it, never an empty or partly written one.
Writing == {runs[r].data : r \in {q \in DOMAIN runs : runs[q].pc = "update_dump"}}
               \cup (IF ui.pc \in {"create_dump", "delete_dump"} THEN {ui.data} ELSE {})
LoadStep ==
    \/ \E r \in DOMAIN runs : runs[r].pc = "update_load" /\ runs'[r] # runs[r]
    \/ ui.pc \in {"create_load", "delete_load", "delete_get"} /\ ui' # ui
    \/ ui.pc = "idle" /\ ui'.pc = "delete_get"

C9_ReadersSeeWholeStore ==
    [][LoadStep => (_load = store.content \/ _load \in Writing)]_vars

\* C10: a string column whose sample has n non-null values (1 <= n <= 100), k of
\* them parseable, is classified as the date column exactly when k/n >= 0.8.
C10_ThresholdAtLeast80 ==
    stage = "classified" =>
        LET cells == df[1].cells
            n == Cardinality({i \in 1..Len(cells) : cells[i].k # "null"})
            k == Cardinality({i \in 1..Len(cells) : cells[i].k = "date"})
        IN  (n >= 1 /\ n <= 100) => ((detected = df[1].name) <=> (10 * k >= 8 * n))

\* C11: range extraction over a column returns the minimum and the maximum of
\* exactly the cells that parse as dates, null and unparseable cells excluded,
\* and (None, None) when no cell parses, for the streaming (CSV) strategy and
\* for the materializing (Excel) one.
ParsedDates(cells) == {cells[i].v : i \in {j \in 1..Len(cells) : cells[j].k = "date"}}

ClassifierAccepts(col) ==
    \/ col.dtype = "datetime"
    \/ col.dtype = "object" /\ ObjectColumnIsDate(col)

C12_HarmonizerUsesClassifierRule ==
    stage = "harmonized" =>
        LET sample == read_file(path, DETECTION_SAMPLE_SIZE)
        IN  /\ \A i \in 1..Len(df) :
                  (df[i].name \in Range(out.date_columns)) <=> ClassifierAccepts(sample[i])
            /\ detected # None => detected \in Range(out.date_columns)

\* C13: the harmonized output holds every original column with its name,
\* position and values unchanged, followed by one appended <col>_harmonized
\* column per detected date column; no original column is overwritten, also
\* when the input has a column named <col>_harmonized, and with no detected
\* column the output equals the input.
C13_OriginalsKeptHarmonizedAppended ==
    stage = "harmonized" =>
        /\ Len(out.frame) = Len(df) + Len(out.date_columns)
        /\ \A i \in 1..Len(df) : out.frame[i] = df[i]
        /\ \A j \in 1..Len(out.date_columns) :
              out.frame[Len(df) + j].name = harmonized_name(out.date_columns[j])

\* C14: update of a filename present in the store persists the merged fields,
\* returns the merged record, and leaves the stored record readable by get and
\* get_all; update of an absent filename returns absent and leaves the store
\* unchanged.
UpdateReturns(r) == runs'[r] = AfterUpdate(runs[r])

C14_UpdateContract ==
    [][\A r \in DOMAIN runs :
          /\ (runs[r].pc = "update_dump" /\ runs'[r] # runs[r]) =>
                /\ store'.content[runs[r].file] = runs[r].data[runs[r].file]
                /\ UpdateReturns(r)
                /\ ~ConstructRaises(store'.content[runs[r].file])
          /\ ( /\ runs[r].pc = "update_load"
               /\ runs'[r] # runs[r]
               /\ runs[r].file \notin DOMAIN _load ) =>
                /\ store' = store
                /\ UpdateReturns(r)]_vars

\* C15: a create, update or delete on one file never changes another file's
\* record: whatever the interleaving of workers and the UI, a write to the
\* store leaves the record of every other filename as it was (not altered, not
\* reverted, not removed, not brought back).
WriterFile ==
    IF ui' # ui THEN ui.file
    ELSE runs[CHOOSE r \in DOMAIN runs : runs'[r] # runs[r]].file

RecordIn(data, g) == IF g \in DOMAIN data THEN <<data[g]>> ELSE << >>

C15_OtherRecordsUntouched ==
    [][store'.content # store.content =>
          \A g \in Files \ {WriterFile} :
              RecordIn(store'.content, g) = RecordIn(store.content, g)]_vars

====
